---------------------------- MODULE Spec2Model ----------------------------
(***************************************************************************)
(* Model of scripts/validate.js (translation file validator and its CLI    *)
(* loop) and of the i18n auto-sync script (syncLanguage).                  *)
(*                                                                         *)
(* A JavaScript string is a sequence of UTF-16 code units (naturals).      *)
(* A JSON value is a record [t, v]: t is the kind, v a sequence of         *)
(* naturals (the code units of a string, <<n>> for a number, <<b>> for a   *)
(* boolean, <<id>> for a nested object or array, <<>> for null).           *)
(* A parsed file root is a record [kind, items]; items are the own         *)
(* enumerable properties, in Object.keys order, as records [k, val].       *)
(***************************************************************************)
EXTENDS Naturals, Integers, Sequences, FiniteSets, TLC

VARIABLES
    enContent,      \* parsed en.json: sequence of [k, val] entries
    langFile,       \* sync: content of <lang>.json on disk
    langContent,    \* sync: the parsed candidate of the last run
    merged,         \* sync: the merged object of the last run (entries)
    stats,          \* sync: the stats object returned by the last run
    prevRun,        \* sync: <<merged, stats>> of the run before the last
    syncPc,         \* sync: "ready", "threw" ("idle" when not in use)
    syncRuns,       \* sync: number of completed runs of syncLanguage
    disk,           \* validator: file label -> file content
    argv,           \* validator CLI: process.argv.slice(2), file labels
    fileIdx,        \* validator CLI: position of the for loop
    totalErrors,    \* validator CLI
    totalWarnings,  \* validator CLI
    lastFile,       \* validator CLI: the file handled by the last iteration
    lastResult,     \* validator CLI: what validate returned for it
    exitCode,       \* validator CLI: -1 while running, else the exit code
    enFileExists    \* validator CLI: fs.existsSync(enFile)

vars == <<enContent, langFile, langContent, merged, stats, prevRun, syncPc,
          syncRuns,
          disk, argv, fileIdx, totalErrors, totalWarnings, lastFile,
          lastResult, exitCode, enFileExists>>

syncVars == <<langFile, langContent, merged, stats, prevRun, syncPc,
              syncRuns>>
cliVars == <<disk, argv, fileIdx, totalErrors, totalWarnings, lastFile,
             lastResult, exitCode, enFileExists>>

-----------------------------------------------------------------------------
(* String literals: printable ASCII, code units 32..126.                   *)

Ascii ==
    <<" ", "!", "dquote", "#", "$", "%", "&", "squote", "lparen", "rparen",
      "star", "+", ",", "-", ".", "/", "0", "1", "2", "3", "4", "5", "6", "7", "8", "9", ":", ";",
      "<", "=", ">", "?", "@", "A", "B", "C", "D", "E", "F", "G", "H", "I",
      "J", "K", "L", "M", "N", "O", "P", "Q", "R", "S", "T", "U", "V", "W",
      "X", "Y", "Z", "[", "bslash", "]", "caret", "_", "btick", "a", "b", "c", "d", "e",
      "f", "g", "h", "i", "j", "k", "l", "m", "n", "o", "p", "q", "r", "s",
      "t", "u", "v", "w", "x", "y", "z", "{", "|", "}", "~">>

Ord(ch) == 31 + (CHOOSE i \in DOMAIN Ascii : Ascii[i] = ch)

U(chars) == [i \in DOMAIN chars |-> Ord(chars[i])]

-----------------------------------------------------------------------------
(* JSON values and parsed roots.                                           *)

JStr(s) == [t |-> "string", v |-> s]
JNum(n) == [t |-> "number", v |-> <<n>>]
JNull == [t |-> "null", v |-> <<>>]

Entry(key, value) == [k |-> key, val |-> value]

Root(kind, items) == [kind |-> kind, items |-> items]

EmptyObject == Root("object", <<>>)

RECURSIVE KeysOf(_)
KeysOf(entries) ==
    IF entries = <<>> THEN <<>>
    ELSE <<Head(entries).k>> \o KeysOf(Tail(entries))

KeySet(entries) == {entries[i].k : i \in DOMAIN entries}

Lookup(entries, key) ==
    entries[CHOOSE i \in DOMAIN entries : entries[i].k = key].val


-----------------------------------------------------------------------------
(* Bounds of the model.                                                    *)

MaxSrcKeys == 2
MaxLangKeys == 2
MaxRuns == 2

-----------------------------------------------------------------------------
(* Strings and property access as the scripts use them.                    *)

RECURSIVE StrLess(_, _)
StrLess(a, b) ==
    IF b = <<>> THEN FALSE
    ELSE IF a = <<>> THEN TRUE
    ELSE IF Head(a) # Head(b) THEN Head(a) < Head(b)
    ELSE StrLess(Tail(a), Tail(b))

RECURSIVE InsertSorted(_, _)
InsertSorted(sorted, s) ==
    IF sorted = <<>> THEN <<s>>
    ELSE IF StrLess(s, Head(sorted)) THEN <<s>> \o sorted
    ELSE <<Head(sorted)>> \o InsertSorted(Tail(sorted), s)

RECURSIVE ArraySort(_)
ArraySort(arr) ==
    IF arr = <<>> THEN <<>>
    ELSE InsertSorted(ArraySort(Tail(arr)), Head(arr))

PROTO == U(<<"_", "_", "p", "r", "o", "t", "o", "_", "_">>)
LENGTH == U(<<"l", "e", "n", "g", "t", "h">>)

StrictEq(a, b) == a.t = b.t /\ a.v = b.v

ObjSet(entries, key, value) ==
    IF key = PROTO THEN entries
    ELSE IF key \in KeySet(entries)
    THEN [i \in DOMAIN entries |->
            IF entries[i].k = key THEN Entry(key, value) ELSE entries[i]]
    ELSE Append(entries, Entry(key, value))

HasOwn(root, key) ==
    \/ key \in KeySet(root.items)
    \/ root.kind \in {"array", "string"} /\ key = LENGTH

Get(root, key) ==
    IF key \in KeySet(root.items) THEN Lookup(root.items, key)
    ELSE JNum(Len(root.items))

-----------------------------------------------------------------------------
(* syncLanguage.                                                           *)

ParseLangFile(file) ==
    IF file.kind \in {"absent", "garbage"} THEN EmptyObject ELSE file

HasOwnThrows(root) == root.kind = "null"

EmptyAcc == [merged |-> <<>>, untranslatedKeys |-> <<>>, missingKeys |-> <<>>]

MergeStepKeepsEnglish(acc, key, en, lang) ==
    IF HasOwn(lang, key)
    THEN [acc EXCEPT
            !.merged = ObjSet(@, key, Lookup(en, key)),
            !.untranslatedKeys =
                IF StrictEq(Get(lang, key), Lookup(en, key))
                THEN Append(@, key) ELSE @]
    ELSE [acc EXCEPT
            !.merged = ObjSet(@, key, Lookup(en, key)),
            !.missingKeys = Append(@, key),
            !.untranslatedKeys = Append(@, key)]

MergeStep(acc, key, en, lang) ==
    IF HasOwn(lang, key)
    THEN [acc EXCEPT
            !.merged = ObjSet(@, key, Get(lang, key)),
            !.untranslatedKeys =
                IF StrictEq(Get(lang, key), Lookup(en, key))
                THEN Append(@, key) ELSE @]
    ELSE [acc EXCEPT
            !.merged = ObjSet(@, key, Lookup(en, key)),
            !.missingKeys = Append(@, key),
            !.untranslatedKeys = Append(@, key)]

RECURSIVE MergeLoop(_, _, _, _)
MergeLoop(acc, enKeys, en, lang) ==
    IF enKeys = <<>> THEN acc
    ELSE MergeLoop(MergeStep(acc, Head(enKeys), en, lang), Tail(enKeys),
                   en, lang)

Completion(translatedKeys, totalKeys) ==
    IF totalKeys > 0
    THEN (2000 * translatedKeys + totalKeys) \div (2 * totalKeys)
    ELSE 1000

SyncStats(acc, totalKeys) ==
    LET translatedKeys == totalKeys - Len(acc.untranslatedKeys)
    IN  [translated |-> translatedKeys,
         untranslated |-> Len(acc.untranslatedKeys),
         missing |-> Len(acc.missingKeys),
         completion |-> Completion(translatedKeys, totalKeys)]

NoStats == [translated |-> 0, untranslated |-> 0, missing |-> 0,
            completion |-> 0]

SyncLanguage ==
    /\ syncPc = "ready"
    /\ syncRuns < MaxRuns
    /\ LET lc == ParseLangFile(langFile)
           enKeys == ArraySort(KeysOf(enContent))
           acc == MergeLoop(EmptyAcc, enKeys, enContent, lc)
       IN  /\ ~(enKeys # <<>> /\ HasOwnThrows(lc))
           /\ langContent' = lc
           /\ merged' = acc.merged
           /\ langFile' = Root("object", acc.merged)
           /\ stats' = SyncStats(acc, Len(enKeys))
           /\ prevRun' = <<merged, stats>>
           /\ syncRuns' = syncRuns + 1
    /\ UNCHANGED <<enContent, syncPc, cliVars>>

SyncLanguageThrows ==
    /\ syncPc = "ready"
    /\ syncRuns < MaxRuns
    /\ LET lc == ParseLangFile(langFile)
       IN  /\ KeysOf(enContent) # <<>>
           /\ HasOwnThrows(lc)
           /\ langContent' = lc
    /\ syncPc' = "threw"
    /\ UNCHANGED <<enContent, langFile, merged, stats, prevRun, syncRuns,
                   cliVars>>

-----------------------------------------------------------------------------
(* Inputs of the synchronizer.                                             *)

KeyA == U(<<"a">>)
Key0 == U(<<"0">>)
Key1 == U(<<"1">>)
SyncKeys == {KeyA, Key0, LENGTH, PROTO}
StrX == U(<<"x">>)
StrY == U(<<"y">>)
SrcVals == {JStr(StrX), JStr(StrY)}
LangVals == SrcVals \cup {JNum(1)}

EntrySeqs(keys, vals, n) ==
    LET E == {Entry(k, v) : k \in keys, v \in vals}
    IN  UNION {{s \in [1..m -> E] :
                  \A i, j \in 1..m : i # j => s[i].k # s[j].k} : m \in 0..n}

SourceMappings == EntrySeqs(SyncKeys, SrcVals, MaxSrcKeys)

LangFiles ==
    {Root("absent", <<>>), Root("garbage", <<>>), Root("null", <<>>),
     Root("number", <<>>), Root("boolean", <<>>),
     Root("string", <<Entry(Key0, JStr(StrX)), Entry(Key1, JStr(StrY))>>),
     Root("array", <<Entry(Key0, JStr(StrX))>>)}
    \cup {Root("object", s) : s \in EntrySeqs(SyncKeys, LangVals, MaxLangKeys)}

CliIdle ==
    /\ disk = <<>>
    /\ argv = <<>>
    /\ fileIdx = 0
    /\ totalErrors = 0
    /\ totalWarnings = 0
    /\ lastFile = <<>>
    /\ lastResult = [errors |-> <<>>, warnings |-> <<>>]
    /\ exitCode = -1
    /\ enFileExists = TRUE

InitSync ==
    /\ enContent \in SourceMappings
    /\ langFile \in LangFiles
    /\ langContent = EmptyObject
    /\ merged = <<>>
    /\ stats = NoStats
    /\ prevRun = <<<<>>, NoStats>>
    /\ syncPc = "ready"
    /\ syncRuns = 0
    /\ CliIdle

NextSync == SyncLanguage \/ SyncLanguageThrows

SpecSync == InitSync /\ [][NextSync]_vars

-----------------------------------------------------------------------------
(* Properties of the synchronizer.                                         *)

SyncRan == syncRuns >= 1

SortedEnKeys == ArraySort(KeysOf(enContent))

\* C1: after syncLanguage, the merged mapping has exactly the key set of
\* the source mapping, whatever the candidate was.
SyncKeySetInvariant == SyncRan => KeySet(merged) = KeySet(enContent)

\* The key-set invariant restricted to the keys an assignment can define:
\* every source key other than "__proto__" is a key of merged, and merged
\* has no other key.
SyncKeySetExceptProto ==
    SyncRan => KeySet(merged) = KeySet(enContent) \ {PROTO}

CandKeys == KeySet(langContent.items)

AbsentKeys == KeySet(enContent) \ CandKeys

PlaceholderKeys ==
    {k \in KeySet(enContent) \cap CandKeys :
        Lookup(langContent.items, k) = Lookup(enContent, k)}

\* C3: for a candidate mapping C, a source key absent from C is backfilled
\* with the source value and counted missing and untranslated; a key whose
\* value in C equals the source value is kept and counted untranslated
\* only; a key whose value differs is kept and counted in neither; so
\* missing <= untranslated and translated + untranslated = |keys(S)|.
SyncClassification ==
    SyncRan /\ langContent.kind = "object" =>
        /\ \A k \in AbsentKeys :
              k \in KeySet(merged) /\ Lookup(merged, k) = Lookup(enContent, k)
        /\ \A k \in KeySet(enContent) \cap CandKeys :
              /\ k \in KeySet(merged)
              /\ Lookup(merged, k) = Lookup(langContent.items, k)
        /\ stats.missing = Cardinality(AbsentKeys)
        /\ stats.untranslated = Cardinality(AbsentKeys \cup PlaceholderKeys)
        /\ stats.missing <= stats.untranslated
        /\ stats.translated + stats.untranslated = Len(enContent)

\* The classification counts alone, and the merged values of every key
\* other than "__proto__".
SyncClassificationExceptProto ==
    SyncRan /\ langContent.kind = "object" =>
        /\ \A k \in AbsentKeys \ {PROTO} :
              k \in KeySet(merged) /\ Lookup(merged, k) = Lookup(enContent, k)
        /\ \A k \in (KeySet(enContent) \cap CandKeys) \ {PROTO} :
              /\ k \in KeySet(merged)
              /\ Lookup(merged, k) = Lookup(langContent.items, k)
        /\ stats.missing = Cardinality(AbsentKeys)
        /\ stats.untranslated = Cardinality(AbsentKeys \cup PlaceholderKeys)
        /\ stats.missing <= stats.untranslated
        /\ stats.translated + stats.untranslated = Len(enContent)

HealedAcc == MergeLoop(EmptyAcc, SortedEnKeys, enContent, EmptyObject)

\* C4: syncLanguage never fails, and a candidate file that is absent,
\* unparseable or whose root is not an object is treated as the empty
\* mapping.
SyncTotal ==
    /\ syncPc # "threw"
    /\ syncRuns = 1 /\ langContent.kind # "object" =>
          /\ merged = HealedAcc.merged
          /\ stats = SyncStats(HealedAcc, Len(enContent))

\* The part of C4 about failure alone.
SyncNeverThrows == syncPc # "threw"

-----------------------------------------------------------------------------
(* validate.js: configuration and helpers.                                 *)

MAX_LENGTH == 2000
MAX_LENGTH_RATIO == 10

Positions(s) == 1..Len(s)

UpperA == Ord("A")
UpperZ == Ord("Z")
LowerA == Ord("a")
LowerF == Ord("f")
LowerX == Ord("x")
LowerZ == Ord("z")
Digit0 == Ord("0")
Digit9 == Ord("9")
OpenBrace == Ord("{")
CloseBrace == Ord("}")
GreaterThan == Ord(">")
Comma == Ord(",")
EqualsSign == Ord("=")
Semicolon == Ord(";")

ToLower(c) == IF c >= UpperA /\ c <= UpperZ THEN c + (LowerA - UpperA) ELSE c

IsLetter(c) == ToLower(c) >= LowerA /\ ToLower(c) <= LowerZ

IsHexDigit(c) ==
    \/ c >= Digit0 /\ c <= Digit9
    \/ ToLower(c) >= LowerA /\ ToLower(c) <= LowerF

\* WhiteSpace and LineTerminator code units: what \s matches and what
\* String.prototype.trim strips.
IsSpace(c) ==
    \/ c >= 9 /\ c <= 13
    \/ c = 32
    \/ c = 160
    \/ c = 5760
    \/ c >= 8192 /\ c <= 8202
    \/ c = 8232
    \/ c = 8233
    \/ c = 8239
    \/ c = 8287
    \/ c = 12288
    \/ c = 65279

\* The lower-case literal lit matches s at position i, ignoring case.
LitAt(s, i, lit) ==
    /\ i + Len(lit) - 1 <= Len(s)
    /\ \A j \in Positions(lit) : ToLower(s[i + j - 1]) = lit[j]

HasLit(s, lit) == \E i \in Positions(s) : LitAt(s, i, lit)

InClass(class, c) ==
    CASE class = "space" -> IsSpace(c)
      [] class = "notGt" -> c # GreaterThan
      [] class = "notComma" -> c # Comma

\* lit, then at least minGap code units of the class, then tail.
LitGapLit(s, lit, class, minGap, tail) ==
    \E i \in Positions(s) :
        /\ LitAt(s, i, lit)
        /\ \E j \in (i + Len(lit) + minGap)..Len(s) :
              /\ LitAt(s, j, tail)
              /\ \A m \in (i + Len(lit))..(j - 1) : InClass(class, s[m])

LtScript == U(<<"<", "s", "c", "r", "i", "p", "t">>)
LtSlashScript == U(<<"<", "/", "s", "c", "r", "i", "p", "t">>)
LitJavascript == U(<<"j", "a", "v", "a", "s", "c", "r", "i", "p", "t">>)
LitOn == U(<<"o", "n">>)
LtIframe == U(<<"<", "i", "f", "r", "a", "m", "e">>)
LtImg == U(<<"<", "i", "m", "g">>)
LitOnerror == U(<<"o", "n", "e", "r", "r", "o", "r">>)
LitData == U(<<"d", "a", "t", "a", ":">>)
LitBase64 == U(<<"b", "a", "s", "e", "6", "4">>)
LitColon == U(<<":">>)
LitAmpHash == U(<<"&", "#">>)
RtlOverride == <<8238>>

\* /on[a-z]{2,}\s*=/i
InlineHandler(s) ==
    \E i \in Positions(s) :
        /\ LitAt(s, i, LitOn)
        /\ \E a \in (i + 4)..Len(s) :
              /\ \A m \in (i + 2)..(a - 1) : IsLetter(s[m])
              /\ \E j \in a..Len(s) :
                    /\ s[j] = EqualsSign
                    /\ \A m \in a..(j - 1) : IsSpace(s[m])

\* /&#x?[0-9a-f]+;/i
NumericEntity(s) ==
    \E i \in Positions(s) :
        /\ LitAt(s, i, LitAmpHash)
        /\ \E d \in {i + 2} \cup
                    (IF i + 2 <= Len(s) /\ ToLower(s[i + 2]) = LowerX
                     THEN {i + 3} ELSE {}) :
              \E j \in (d + 1)..Len(s) :
                  /\ s[j] = Semicolon
                  /\ \A m \in d..(j - 1) : IsHexDigit(s[m])

NumBlockedPatterns == 9

BlockedPatternTest(n, s) ==
    CASE n = 1 -> HasLit(s, LtScript)
      [] n = 2 -> HasLit(s, LtSlashScript)
      [] n = 3 -> LitGapLit(s, LitJavascript, "space", 0, LitColon)
      [] n = 4 -> InlineHandler(s)
      [] n = 5 -> HasLit(s, LtIframe)
      [] n = 6 -> LitGapLit(s, LtImg, "notGt", 1, LitOnerror)
      [] n = 7 -> LitGapLit(s, LitData, "notComma", 0, LitBase64)
      [] n = 8 -> NumericEntity(s)
      [] n = 9 -> \E i \in Positions(s) : s[i] = RtlOverride[1]

hasControlChars(str) ==
    \E i \in Positions(str) :
        \/ str[i] <= 8
        \/ str[i] = 11
        \/ str[i] = 12
        \/ str[i] >= 14 /\ str[i] <= 31
        \/ str[i] = 127

TrimIsEmpty(str) == \A i \in Positions(str) : IsSpace(str[i])

\* End (inclusive) of the match of /\{\{[^}]+\}\}/ starting at i, 0 if none.
PlaceholderEnd(s, i) ==
    IF i + 1 <= Len(s) /\ s[i] = OpenBrace /\ s[i + 1] = OpenBrace
    THEN LET closers == {j \in (i + 2)..Len(s) : s[j] = CloseBrace}
         IN  IF closers = {} THEN 0
             ELSE LET e == CHOOSE j \in closers : \A x \in closers : j <= x
                  IN  IF e > i + 2 /\ e + 1 <= Len(s) /\ s[e + 1] = CloseBrace
                      THEN e + 1 ELSE 0
    ELSE 0

\* str.match(/\{\{[^}]+\}\}/g): the successive leftmost matches from from on.
RECURSIVE MatchAll(_, _)
MatchAll(s, from) ==
    LET starts == {i \in from..Len(s) : PlaceholderEnd(s, i) > 0}
    IN  IF starts = {} THEN <<>>
        ELSE LET i == CHOOSE x \in starts : \A y \in starts : x <= y
             IN  <<SubSeq(s, i, PlaceholderEnd(s, i))>>
                     \o MatchAll(s, PlaceholderEnd(s, i) + 1)

extractPlaceholders(str) == ArraySort(MatchAll(str, 1))

Includes(arr, x) == \E i \in DOMAIN arr : arr[i] = x

-----------------------------------------------------------------------------
(* validate.                                                               *)

Message(m, key, arg) == [msg |-> m, key |-> key, arg |-> arg]

EnJson == U(<<"e", "n", ".", "j", "s", "o", "n">>)
ReportJson == U(<<"r", "e", "p", "o", "r", "t", ".", "j", "s", "o", "n">>)
DotJson == U(<<".", "j", "s", "o", "n">>)

\* label.replace('.json', ''): the first occurrence only, case-sensitive.
ReplaceFirst(label, pat) ==
    LET at == {i \in Positions(label) :
                  /\ i + Len(pat) - 1 <= Len(label)
                  /\ SubSeq(label, i, i + Len(pat) - 1) = pat}
    IN  IF at = {} THEN label
        ELSE LET i == CHOOSE x \in at : \A y \in at : x <= y
             IN  SubSeq(label, 1, i - 1)
                     \o SubSeq(label, i + Len(pat), Len(label))

\* /^[a-z]{2,5}$/
LangCodeOk(langCode) ==
    /\ Len(langCode) \in 2..5
    /\ \A i \in Positions(langCode) : langCode[i] >= LowerA /\ langCode[i] <= LowerZ

TypeOf(value) == IF value.t = "null" THEN "object" ELSE value.t

Filter(arr, other) == SelectSeq(arr, LAMBDA p : ~Includes(other, p))

RoundDiv(a, b) == (2 * a + b) \div (2 * b)

PlaceholderErrorsMissingOnly(key, value, enValue) ==
    LET enPlaceholders == extractPlaceholders(enValue)
        langPlaceholders == extractPlaceholders(value)
        missing == Filter(enPlaceholders, langPlaceholders)
    IN  IF Len(missing) # 0
        THEN <<Message("MissingPlaceholder", key, missing)>> ELSE <<>>

PlaceholderErrors(key, value, enValue) ==
    LET enPlaceholders == extractPlaceholders(enValue)
        langPlaceholders == extractPlaceholders(value)
        missing == Filter(enPlaceholders, langPlaceholders)
        extra == Filter(langPlaceholders, enPlaceholders)
    IN  (IF Len(missing) # 0
         THEN <<Message("MissingPlaceholder", key, missing)>> ELSE <<>>)
        \o (IF Len(extra) # 0
            THEN <<Message("ExtraPlaceholder", key, extra)>> ELSE <<>>)

BlockedErrors(key, value) ==
    LET hits == SelectSeq([n \in 1..NumBlockedPatterns |-> n],
                          LAMBDA n : BlockedPatternTest(n, value))
    IN  [i \in DOMAIN hits |-> Message("Blocked", key, <<<<hits[i]>>>>)]

LengthErrors(key, value, enValue) ==
    IF Len(value) > MAX_LENGTH
    THEN <<Message("HardCap", key, <<<<Len(value)>>>>)>>
    ELSE <<>>

LengthWarningsAtRatio(key, value, enValue) ==
    IF Len(value) > MAX_LENGTH THEN <<>>
    ELSE IF Len(enValue) > 0 /\ Len(value) >= Len(enValue) * MAX_LENGTH_RATIO
    THEN <<Message("TooLong", key, <<<<RoundDiv(Len(value), Len(enValue))>>>>)>>
    ELSE <<>>

LengthWarnings(key, value, enValue) ==
    IF Len(value) > MAX_LENGTH THEN <<>>
    ELSE IF Len(enValue) > 0 /\ Len(value) > Len(enValue) * MAX_LENGTH_RATIO
    THEN <<Message("TooLong", key, <<<<RoundDiv(Len(value), Len(enValue))>>>>)>>
    ELSE <<>>

\* One iteration of the per-value loop, for an entry whose key is in enKeys.
CheckValue(acc, key, jsonValue, en) ==
    IF TypeOf(jsonValue) # "string"
    THEN [acc EXCEPT !.errors = Append(@, Message("NotString", key, <<>>))]
    ELSE LET value == jsonValue.v
             enValue == Lookup(en, key).v
         IN  [errors |-> acc.errors
                  \o BlockedErrors(key, value)
                  \o (IF hasControlChars(value)
                      THEN <<Message("ControlChars", key, <<>>)>> ELSE <<>>)
                  \o PlaceholderErrors(key, value, enValue)
                  \o LengthErrors(key, value, enValue),
              warnings |-> acc.warnings
                  \o (IF TrimIsEmpty(value) /\ ~TrimIsEmpty(enValue)
                      THEN <<Message("Empty", key, <<>>)>> ELSE <<>>)
                  \o LengthWarnings(key, value, enValue)]

RECURSIVE PerValueLoop(_, _, _)
PerValueLoop(acc, entries, en) ==
    IF entries = <<>> THEN acc
    ELSE LET e == Head(entries)
         IN  PerValueLoop(
                 IF e.k \notin KeySet(en) THEN acc
                 ELSE CheckValue(acc, e.k, e.val, en),
                 Tail(entries), en)

KeySetErrorsMissingOnly(content, en) ==
    LET missingKeys == SelectSeq(KeysOf(en),
                                 LAMBDA k : k \notin KeySet(content.items))
    IN  [i \in DOMAIN missingKeys |-> Message("MissingKey", missingKeys[i], <<>>)]

KeySetErrors(content, en) ==
    LET missingKeys == SelectSeq(KeysOf(en),
                                 LAMBDA k : k \notin KeySet(content.items))
        extraKeys == SelectSeq(KeysOf(content.items),
                               LAMBDA k : k \notin KeySet(en))
    IN  [i \in DOMAIN missingKeys |-> Message("MissingKey", missingKeys[i], <<>>)]
        \o [i \in DOMAIN extraKeys |-> Message("UnknownKey", extraKeys[i], <<>>)]

LangCodeErrorsNoStrip(label) ==
    IF ~LangCodeOk(label)
    THEN <<Message("BadLangCode", label, <<>>)>> ELSE <<>>

LangCodeErrors(label) ==
    IF ~LangCodeOk(ReplaceFirst(label, DotJson))
    THEN <<Message("BadLangCode", label, <<>>)>> ELSE <<>>

ParseFails(file) == file.kind \in {"absent", "garbage"}

RootNotObjectForgetsNull(file) == file.kind \notin {"object", "null"}

RootNotObject(file) == file.kind # "object"

validate(label, file, en) ==
    IF label = EnJson
    THEN [errors |-> <<Message("IsEnJson", <<>>, <<>>)>>, warnings |-> <<>>]
    ELSE IF label = ReportJson
    THEN [errors |-> <<Message("IsReportJson", <<>>, <<>>)>>,
          warnings |-> <<>>]
    ELSE IF ParseFails(file)
    THEN [errors |-> Append(LangCodeErrors(label),
                            Message("InvalidJSON", <<>>, <<>>)),
          warnings |-> <<>>]
    ELSE IF RootNotObject(file)
    THEN [errors |-> Append(LangCodeErrors(label),
                            Message("RootNotObject", <<>>, <<>>)),
          warnings |-> <<>>]
    ELSE PerValueLoop(
             [errors |-> LangCodeErrors(label) \o KeySetErrors(file, en),
              warnings |-> <<>>],
             file.items, en)

-----------------------------------------------------------------------------
(* The main loop of validate.js.                                           *)

NoResult == [errors |-> <<>>, warnings |-> <<>>]

Running == exitCode = -1

CliUsage ==
    /\ Running
    /\ Len(argv) = 0
    /\ exitCode' = 1
    /\ UNCHANGED <<enContent, syncVars, disk, argv, fileIdx, totalErrors,
                   totalWarnings, lastFile, lastResult, enFileExists>>

CliNoSource ==
    /\ Running
    /\ Len(argv) # 0
    /\ ~enFileExists
    /\ exitCode' = 1
    /\ UNCHANGED <<enContent, syncVars, disk, argv, fileIdx, totalErrors,
                   totalWarnings, lastFile, lastResult, enFileExists>>

InLoop == Running /\ enFileExists /\ fileIdx < Len(argv)

CliNotFoundNotCounted ==
    /\ InLoop
    /\ disk[argv[fileIdx + 1]].kind = "absent"
    /\ fileIdx' = fileIdx + 1
    /\ lastFile' = argv[fileIdx + 1]
    /\ lastResult' = NoResult
    /\ UNCHANGED <<enContent, syncVars, disk, argv, totalErrors,
                   totalWarnings, exitCode, enFileExists>>

CliNotFound ==
    /\ InLoop
    /\ disk[argv[fileIdx + 1]].kind = "absent"
    /\ totalErrors' = totalErrors + 1
    /\ fileIdx' = fileIdx + 1
    /\ lastFile' = argv[fileIdx + 1]
    /\ lastResult' = NoResult
    /\ UNCHANGED <<enContent, syncVars, disk, argv, totalWarnings, exitCode,
                   enFileExists>>

CliValidate ==
    /\ InLoop
    /\ disk[argv[fileIdx + 1]].kind # "absent"
    /\ LET file == argv[fileIdx + 1]
           result == validate(file, disk[file], enContent)
       IN  /\ totalErrors' = totalErrors + Len(result.errors)
           /\ totalWarnings' = totalWarnings + Len(result.warnings)
           /\ lastFile' = file
           /\ lastResult' = result
    /\ fileIdx' = fileIdx + 1
    /\ UNCHANGED <<enContent, syncVars, disk, argv, exitCode, enFileExists>>

CliExit ==
    /\ Running
    /\ enFileExists
    /\ Len(argv) # 0
    /\ fileIdx = Len(argv)
    /\ exitCode' = IF totalErrors > 0 THEN 1 ELSE 0
    /\ UNCHANGED <<enContent, syncVars, disk, argv, fileIdx, totalErrors,
                   totalWarnings, lastFile, lastResult, enFileExists>>

SyncIdle ==
    /\ langFile = Root("absent", <<>>)
    /\ langContent = EmptyObject
    /\ merged = <<>>
    /\ stats = NoStats
    /\ prevRun = <<<<>>, NoStats>>
    /\ syncPc = "idle"
    /\ syncRuns = 0

CliStart ==
    /\ fileIdx = 0
    /\ totalErrors = 0
    /\ totalWarnings = 0
    /\ lastFile = <<>>
    /\ lastResult = NoResult
    /\ exitCode = -1

-----------------------------------------------------------------------------
(* Inputs of the validator: file names, key sets and values.               *)

MaxFiles == 2
MaxValKeys == 2

DeJson == U(<<"d", "e", ".", "j", "s", "o", "n">>)
FrJson == U(<<"f", "r", ".", "j", "s", "o", "n">>)
UpperJson == U(<<"D", "E", ".", "j", "s", "o", "n">>)
NoExtension == U(<<"d", "e">>)
DoubleExtension == U(<<".", "j", "s", "o", "n", "d", "e", ".", "j", "s", "o", "n">>)
LongCode == U(<<"g", "e", "r", "m", "a", "n", ".", "j", "s", "o", "n">>)
ValidNames == {DeJson, NoExtension}
InvalidNames == {UpperJson, DoubleExtension, LongCode}
ReservedNames == {EnJson, ReportJson}
Labels == ValidNames \cup InvalidNames \cup ReservedNames

KeyB == U(<<"b">>)
KeyZ == U(<<"z">>)
StrEmpty == <<>>
TokA == U(<<"{", "{", "a", "}", "}">>)
TokB == U(<<"{", "{", "b", "}", "}">>)
StrHalloA == U(<<"H", "a", "l", "l", "o", " ">>) \o TokA
StrBonjour == U(<<"B", "o", "n", "j", "o", "u", "r">>)
StrScript == U(<<"<", "s", "c", "r", "i", "p", "t", ">">>)
StrEleven == U(<<"H", "e", "l", "l", "o", " ", "w", "o", "r", "l", "d">>)
StrTen == U(<<"G", "u", "t", "e", "n", " ", "T", "a", "g", "!">>)
StrBlank == U(<<" ">>)

Pad(head, n) == head \o [i \in 1..(n - Len(head)) |-> LowerX]

StrOverCap == Pad(StrX, MAX_LENGTH + 1)

ValSrcVals == {JStr(StrX), JStr(TokA)}
ValLangVals ==
    {JStr(StrX), JStr(StrBonjour), JStr(StrScript), JStr(StrEleven),
     JStr(StrBlank), JStr(StrHalloA), JNull}

ValSources == EntrySeqs({KeyA, KeyB}, ValSrcVals, MaxValKeys)

NonObjectFiles ==
    {Root("absent", <<>>), Root("garbage", <<>>), Root("null", <<>>),
     Root("number", <<>>), Root("boolean", <<>>),
     Root("string", <<Entry(Key0, JStr(StrX))>>),
     Root("array", <<Entry(Key0, JStr(StrX))>>)}

ObjectFiles(n) ==
    {Root("object", s) : s \in EntrySeqs({KeyA, KeyB, KeyZ}, ValLangVals, n)}

OverCapFiles ==
    {Root("object", <<Entry(k, JStr(StrOverCap))>>) : k \in {KeyA, KeyZ}}

\* Every file under the name de.json; the files of at most one key under
\* every name.
ValCases ==
    ({DeJson} \X (NonObjectFiles \cup ObjectFiles(MaxValKeys) \cup OverCapFiles))
    \cup (Labels \X (NonObjectFiles \cup ObjectFiles(1)))

LongSource == <<Entry(KeyA, JStr(Pad(StrX, 300)))>>

\* Every source with every case, and the long source with the files over
\* the hard cap.
ValInputs ==
    (ValSources \X ValCases)
    \cup ({LongSource} \X ({DeJson} \X OverCapFiles))

InitValidate ==
    /\ SyncIdle
    /\ CliStart
    /\ enFileExists = TRUE
    /\ \E input \in ValInputs :
          /\ enContent = input[1]
          /\ argv = <<input[2][1]>>
          /\ disk = [l \in {input[2][1]} |-> input[2][2]]

NextValidate == CliNotFound \/ CliValidate \/ CliExit

SpecValidate == InitValidate /\ [][NextValidate]_vars

-----------------------------------------------------------------------------
(* Inputs for the per-value checks: one key, many values.                  *)

StrFive == U(<<"H", "e", "l", "l", "o">>)

EnRichVals ==
    {StrEmpty, StrFive, StrX, TokA, TokA \o TokB, TokB \o TokA, TokA \o TokA,
     StrX \o TokA, Pad(StrX, 300)}

PlaceholderVals ==
    {StrX, TokA, TokB, TokA \o TokB, TokB \o TokA, TokA \o TokA,
     TokA \o StrX \o TokB, U(<<"{", "{", "{", "a", "}", "}">>), U(<<"{", "{", "}", "}">>), U(<<"{", "{", "a", "}">>), U(<<"{", "{", "a", "}", "}", "}">>), U(<<"{", "a", "}">>)}

LengthVals ==
    {StrEmpty, StrBlank, StrTen, StrEleven,
     Pad(StrX, 5 * MAX_LENGTH_RATIO), Pad(StrX, 5 * MAX_LENGTH_RATIO + 1),
     Pad(StrX, MAX_LENGTH), Pad(StrX, MAX_LENGTH + 1),
     Pad(TokA, MAX_LENGTH + 1), Pad(TokA, MAX_LENGTH)}

UnsafeVals ==
    {StrScript, U(<<"<", "/", "S", "C", "R", "I", "P", "T", ">">>), U(<<"J", "a", "v", "a", "S", "c", "r", "i", "p", "t", " ", ":", "x">>), U(<<"j", "a", "v", "a", "s", "c", "r", "i", "p", "t", " ", "x", ":">>), U(<<"o", "n", "C", "l", "i", "c", "k", " ", "=", "x">>), U(<<"o", "n", "x", "=">>), U(<<"<", "I", "F", "r", "a", "m", "e">>),
     U(<<"<", "i", "m", "g", " ", "s", "r", "c", "=", "x", " ", "o", "n", "e", "r", "r", "o", "r">>), U(<<"<", "i", "m", "g", ">", "o", "n", "e", "r", "r", "o", "r">>), U(<<"d", "a", "t", "a", ":", "t", "e", "x", "t", ";", "b", "a", "s", "e", "6", "4">>), U(<<"d", "a", "t", "a", ":", ",", "b", "a", "s", "e", "6", "4">>), U(<<"&", "#", "x", "4", "F", ";">>), U(<<"&", "#", "6", "5", ";">>),
     U(<<"&", "#", "x", ";">>), <<8238>>, <<7>>, <<9>>}

RichVals == PlaceholderVals \cup LengthVals \cup UnsafeVals

InitValue ==
    /\ SyncIdle
    /\ CliStart
    /\ enFileExists = TRUE
    /\ argv = <<DeJson>>
    /\ \E enValue \in EnRichVals, value \in RichVals :
          /\ enContent = <<Entry(KeyA, JStr(enValue))>>
          /\ disk = [l \in {DeJson} |->
                        Root("object", <<Entry(KeyA, JStr(value))>>)]

NextValue == CliValidate \/ CliExit

SpecValue == InitValue /\ [][NextValue]_vars

-----------------------------------------------------------------------------
(* Inputs of the command line.                                             *)

CliLabels == {DeJson, FrJson, UpperJson}

CliSource == <<Entry(KeyA, JStr(StrX))>>

CliFiles ==
    {Root("absent", <<>>), Root("garbage", <<>>),
     Root("object", <<Entry(KeyA, JStr(StrBonjour))>>),
     Root("object", <<Entry(KeyA, JStr(StrEleven))>>),
     Root("object", <<Entry(KeyZ, JStr(StrScript))>>)}

ArgLists == UNION {[1..n -> CliLabels] : n \in 0..MaxFiles}

InitCli ==
    /\ SyncIdle
    /\ CliStart
    /\ enFileExists \in BOOLEAN
    /\ enContent = CliSource
    /\ argv \in ArgLists
    /\ disk \in [CliLabels -> CliFiles]

NextCli == CliUsage \/ CliNoSource \/ CliNotFound \/ CliValidate \/ CliExit

SpecCli == InitCli /\ [][NextCli]_vars

-----------------------------------------------------------------------------
(* Properties of the validator.                                            *)

\* The last loop iteration called validate.
Validated == fileIdx >= 1 /\ disk[lastFile].kind # "absent"

File == disk[lastFile]
Errors == lastResult.errors
Warnings == lastResult.warnings

MsgsOf(msgs, m, key) ==
    {i \in DOMAIN msgs : msgs[i].msg = m /\ msgs[i].key = key}

Range(seq) == {seq[i] : i \in DOMAIN seq}

MsgKinds(msgs) == {msgs[i].msg : i \in DOMAIN msgs}

\* C5: a reserved file name yields exactly one error and no warning,
\* whatever the content; a parse failure or a root that is not an object
\* yields its error as the last message, with no key-set or per-key
\* message; an invalid language-code name puts its error first and every
\* later check still runs.
ValidatorShortCircuit ==
    Validated =>
        /\ lastFile \in ReservedNames =>
              /\ Warnings = <<>>
              /\ Errors = <<Message(IF lastFile = EnJson THEN "IsEnJson"
                                    ELSE "IsReportJson", <<>>, <<>>)>>
        /\ lastFile \notin ReservedNames /\ File.kind = "garbage" =>
              /\ Warnings = <<>>
              /\ Errors # <<>>
              /\ Errors[Len(Errors)].msg = "InvalidJSON"
              /\ MsgKinds(Errors) \subseteq {"BadLangCode", "InvalidJSON"}
        /\ lastFile \notin ReservedNames
               /\ File.kind \in {"null", "array", "number", "string",
                                 "boolean"} =>
              /\ Warnings = <<>>
              /\ Errors # <<>>
              /\ Errors[Len(Errors)].msg = "RootNotObject"
              /\ MsgKinds(Errors) \subseteq {"BadLangCode", "RootNotObject"}
        /\ lastFile \in InvalidNames =>
              /\ Errors # <<>>
              /\ Errors[1].msg = "BadLangCode"
              /\ Tail(Errors) = validate(DeJson, File, enContent).errors
              /\ Warnings = validate(DeJson, File, enContent).warnings
        /\ lastFile \in ValidNames => "BadLangCode" \notin MsgKinds(Errors)

\* An invalid file name with a null root: the name error, then the root
\* error, and nothing else.
ValidatorShortCircuitWitness ==
    /\ Validated
    /\ lastFile \in InvalidNames
    /\ File.kind = "null"
    /\ enContent # <<>>
    /\ Len(Errors) = 2
    /\ Errors[2].msg = "RootNotObject"

\* C6: for a candidate that parses to an object, exactly one Missing key
\* error per source key absent from it and exactly one Unknown key error
\* per candidate key absent from the source, the former before the
\* latter; a surplus key gets no other message, per-key messages being
\* about keys present in both mappings only.
ValidatorKeySet ==
    Validated /\ lastFile \notin ReservedNames /\ File.kind = "object" =>
        LET S == KeySet(enContent)
            C == KeySet(File.items)
        IN  /\ \A k \in S \cup C :
                  /\ Cardinality(MsgsOf(Errors, "MissingKey", k))
                        = IF k \in S \ C THEN 1 ELSE 0
                  /\ Cardinality(MsgsOf(Errors, "UnknownKey", k))
                        = IF k \in C \ S THEN 1 ELSE 0
            /\ \A i \in DOMAIN Errors :
                  Errors[i].msg \in {"MissingKey", "UnknownKey"}
                      => Errors[i].key \in S \cup C
            /\ \A i, j \in DOMAIN Errors :
                  Errors[i].msg = "MissingKey" /\ Errors[j].msg = "UnknownKey"
                      => i < j
            /\ \A i \in DOMAIN Errors :
                  Errors[i].key \in C \ S => Errors[i].msg = "UnknownKey"
            /\ \A i \in DOMAIN Warnings : Warnings[i].key \notin C \ S
            /\ \A i \in DOMAIN Errors :
                  Errors[i].msg \notin {"MissingKey", "UnknownKey",
                                        "BadLangCode"}
                      => Errors[i].key \in S \cap C
            /\ \A i \in DOMAIN Warnings : Warnings[i].key \in S \cap C

\* A source key is missing and the candidate has a surplus key whose value
\* holds a script tag: one Missing key error, then one Unknown key error.
ValidatorKeySetWitness ==
    /\ Validated
    /\ lastFile = DeJson
    /\ File = Root("object", <<Entry(KeyZ, JStr(StrScript))>>)
    /\ KeySet(enContent) = {KeyA}
    /\ Errors = <<Message("MissingKey", KeyA, <<>>),
                  Message("UnknownKey", KeyZ, <<>>)>>

\* The string entries of the candidate whose key is in the source.
CheckedEntries ==
    {i \in DOMAIN File.items :
        /\ File.items[i].k \in KeySet(enContent)
        /\ File.items[i].val.t = "string"}

Tokens(str) == Range(extractPlaceholders(str))

\* C7: for every key in both mappings with a string value, a Missing
\* placeholder error is emitted iff some token of the source value is not
\* a token of the candidate value, an Extra placeholder error iff some
\* token of the candidate value is not a token of the source value; each
\* lists exactly the tokens of that difference.
ValidatorPlaceholders ==
    Validated /\ lastFile \notin ReservedNames /\ File.kind = "object" =>
        \A i \in CheckedEntries :
            LET k == File.items[i].k
                src == Tokens(Lookup(enContent, k).v)
                cand == Tokens(File.items[i].val.v)
                miss == MsgsOf(Errors, "MissingPlaceholder", k)
                extra == MsgsOf(Errors, "ExtraPlaceholder", k)
            IN  /\ Cardinality(miss) = IF src \ cand # {} THEN 1 ELSE 0
                /\ Cardinality(extra) = IF cand \ src # {} THEN 1 ELSE 0
                /\ \A m \in miss : Range(Errors[m].arg) = src \ cand
                /\ \A m \in extra : Range(Errors[m].arg) = cand \ src

\* The source value is "x{{a}}" and the candidate dropped the placeholder.
ValidatorPlaceholdersWitness ==
    /\ Validated
    /\ enContent = <<Entry(KeyA, JStr(StrX \o TokA))>>
    /\ File = Root("object", <<Entry(KeyA, JStr(StrX))>>)
    /\ Errors = <<Message("MissingPlaceholder", KeyA, <<TokA>>)>>

\* C8: a value longer than 2000 yields the hard-cap error and no length
\* warning; otherwise a length warning is emitted iff the source value is
\* non-empty and the value is longer than 10 times the source value
\* (source 5: 51 warns, 50 does not); never both for one key.
ValidatorLength ==
    Validated /\ lastFile \notin ReservedNames /\ File.kind = "object" =>
        \A i \in CheckedEntries :
            LET k == File.items[i].k
                srcLen == Len(Lookup(enContent, k).v)
                len == Len(File.items[i].val.v)
                hard == Cardinality(MsgsOf(Errors, "HardCap", k))
                warn == Cardinality(MsgsOf(Warnings, "TooLong", k))
            IN  /\ len > 2000 => hard = 1 /\ warn = 0
                /\ len <= 2000 =>
                      /\ hard = 0
                      /\ warn = IF srcLen > 0 /\ len > 10 * srcLen
                                THEN 1 ELSE 0
                /\ srcLen = 5 /\ len = 51 => warn = 1
                /\ srcLen = 5 /\ len = 50 => warn = 0

\* Source value of length 5, value of length 51: a warning and no error.
ValidatorLengthWitness ==
    /\ Validated
    /\ Len(enContent[1].val.v) = 5
    /\ Len(File.items[1].val.v) = 51
    /\ Errors = <<>>
    /\ Len(Warnings) = 1
    /\ Warnings[1].msg = "TooLong"

\* What one named file adds to the error count.
FileErrors(label) ==
    IF disk[label].kind = "absent" THEN 1
    ELSE Len(validate(label, disk[label], enContent).errors)

RECURSIVE SumFileErrors(_)
SumFileErrors(labels) ==
    IF labels = <<>> THEN 0
    ELSE FileErrors(Head(labels)) + SumFileErrors(Tail(labels))

\* C9: once the named files (at least one) are processed, the exit code
\* is 0 iff every named file exists and validate reported no error for
\* any of them; a file not found counts as one error and the loop goes on
\* to the remaining files; warnings do not change the exit code.
CliExitStatus ==
    exitCode # -1 /\ Len(argv) >= 1 /\ enFileExists =>
        /\ fileIdx = Len(argv)
        /\ totalErrors = SumFileErrors(argv)
        /\ exitCode \in {0, 1}
        /\ exitCode = 0 <=>
              \A i \in DOMAIN argv :
                  /\ disk[argv[i]].kind # "absent"
                  /\ validate(argv[i], disk[argv[i]], enContent).errors = <<>>

\* Two files were validated, one of them with a warning, and the process
\* exited with code 0.
CliExitStatusWitness ==
    /\ exitCode = 0
    /\ Len(argv) >= 2
    /\ argv[1] # argv[2]
    /\ totalWarnings > 0
    /\ totalErrors = 0

\* A first file that is not found, then a file that is validated.
CliNotFoundGoesOn ==
    /\ exitCode = 1
    /\ Len(argv) >= 2
    /\ disk[argv[1]].kind = "absent"
    /\ disk[argv[2]].kind = "object"
    /\ lastFile = argv[2]
    /\ totalErrors = 1

\* The candidate of C10: exactly the keys of the source, every value a
\* non-empty string distinct from the source value, free of blocked
\* patterns and control characters, with the source value's placeholders.
CleanCandidate ==
    /\ File.kind = "object"
    /\ KeySet(File.items) = KeySet(enContent)
    /\ \A i \in DOMAIN File.items :
          LET value == File.items[i].val
              enValue == Lookup(enContent, File.items[i].k)
          IN  /\ value.t = "string"
              /\ value.v # <<>>
              /\ value.v # enValue.v
              /\ \A n \in 1..NumBlockedPatterns :
                    ~BlockedPatternTest(n, value.v)
              /\ ~hasControlChars(value.v)
              /\ Tokens(value.v) = Tokens(enValue.v)

\* Within the length limits: no value is blank where the source value is
\* not, longer than 2000, or longer than 10 times a non-empty source value.
WithinLimits ==
    \A i \in DOMAIN File.items :
        LET value == File.items[i].val.v
            enValue == Lookup(enContent, File.items[i].k).v
        IN  /\ TrimIsEmpty(value) => TrimIsEmpty(enValue)
            /\ Len(value) <= 2000
            /\ Len(enValue) = 0 \/ Len(value) <= 10 * Len(enValue)

\* C10: a clean candidate yields zero errors and zero warnings.
ValidatorCleanPassAnyName ==
    Validated /\ CleanCandidate => Errors = <<>> /\ Warnings = <<>>

\* C10, as amended: a clean candidate within the length limits, submitted
\* under a file name that is a valid language code and not reserved,
\* yields zero errors and zero warnings.
ValidatorCleanPass ==
    Validated /\ CleanCandidate /\ WithinLimits /\ lastFile \in ValidNames
        => Errors = <<>> /\ Warnings = <<>>

\* A clean candidate of two keys, one of them with a placeholder, passed.
ValidatorCleanPassWitness ==
    /\ Validated
    /\ CleanCandidate
    /\ WithinLimits
    /\ lastFile = DeJson
    /\ Len(enContent) = 2
    /\ \E i \in DOMAIN enContent : Tokens(enContent[i].val.v) # {}
    /\ Errors = <<>>
    /\ Warnings = <<>>

=============================================================================
